---- MODULE Spec2Model ----
(***************************************************************************)
(* Live_Subs.py: the ACV waterfall report.                                 *)
(*                                                                         *)
(* One rendering pass of the script is modelled: the SQL query (line-item  *)
(* aggregation, canonicalisation by ROW_NUMBER, renewal classification),   *)
(* the load into a data frame, the date coercion, the sidebar filters, the *)
(* annual bridge, the start-month..end-month bridge and the 12-month       *)
(* breakdown.                                                              *)
(*                                                                         *)
(* Dates are proleptic Gregorian day ordinals (datetime.date.toordinal);   *)
(* the ordinal 0 is a missing date (SQL NULL, pandas NaT).  Money is kept  *)
(* in integer pence: an ACV of 1200.00 is 120000.  A nullable number is a  *)
(* sequence of length 0 (NULL / NaN) or 1 (the value).                     *)
(***************************************************************************)
EXTENDS Integers, Sequences, FiniteSets, TLC

VARIABLES
    db,                 \* the source tables the query reads
    now,                \* GETDATE() at the time the query runs
    pc,                 \* position of the script
    df,                 \* the data frame (or None)
    messages,           \* st.error / st.warning / st.success calls so far
    selected_region, selected_category, selected_bundle, selected_year,
    filtered_df,
    opening_acv, expiring_acv, renewed_acv, new_business_acv, closing_acv,
    start_month, end_month,
    rolling_acv, monthly_closing_acv,
    values,             \* the list `values` of the script
    charts              \* the y-series handed to st.plotly_chart, in order

vars == <<db, now, pc, df, messages, selected_region, selected_category,
          selected_bundle, selected_year, filtered_df, opening_acv,
          expiring_acv, renewed_acv, new_business_acv, closing_acv,
          start_month, end_month, rolling_acv, monthly_closing_acv,
          values, charts>>

-----------------------------------------------------------------------------
(* Calendar arithmetic, as datetime / pandas / T-SQL compute it.           *)

NaT == 0

NULL == <<>>

NULLSTR == "NULL"

Val(x) == <<x>>

IsNull(v) == v = <<>>

IsLeap(y) == (y % 4 = 0) /\ ((y % 100 # 0) \/ (y % 400 = 0))

DaysInMonth(y, m) ==
    IF m = 2 THEN (IF IsLeap(y) THEN 29 ELSE 28)
    ELSE IF m \in {4, 6, 9, 11} THEN 30 ELSE 31

DaysBeforeYear(y) ==
    (y - 1) * 365 + ((y - 1) \div 4) - ((y - 1) \div 100) + ((y - 1) \div 400)

DaysBeforeMonth(y, m) ==
    <<0, 31, 59, 90, 120, 151, 181, 212, 243, 273, 304, 334>>[m]
        + (IF m > 2 /\ IsLeap(y) THEN 1 ELSE 0)

\* the ordinal of the date y-m-d
Ymd(y, m, d) == DaysBeforeYear(y) + DaysBeforeMonth(y, m) + d

YearOf(n) ==
    CHOOSE y \in (n \div 366)..((n \div 365) + 1) :
        DaysBeforeYear(y) < n /\ n <= DaysBeforeYear(y + 1)

MonthOf(n) ==
    LET y == YearOf(n)
        k == n - DaysBeforeYear(y)
    IN  CHOOSE m \in 1..12 :
            DaysBeforeMonth(y, m) < k /\ k <= DaysBeforeMonth(y, m) + DaysInMonth(y, m)

DayOf(n) == n - DaysBeforeYear(YearOf(n)) - DaysBeforeMonth(YearOf(n), MonthOf(n))

\* DATEADD(YEAR, 1, d) fails (error 517) when the result is past 9999-12-31
DateAddYearRaises(d) == d # NaT /\ d > Ymd(9998, 12, 31)

\* DATEADD(YEAR, 1, d) where it does not fail: the same month and day one year on;
\* 29 Feb becomes 28 Feb
DateAddYear(d) ==
    IF d = NaT THEN NaT
    ELSE LET y  == YearOf(d)
             m  == MonthOf(d)
             dd == DayOf(d)
             cap == DaysInMonth(y + 1, m)
         IN  Ymd(y + 1, m, IF dd > cap THEN cap ELSE dd)

\* ROUND(n / d, 0) for d # 0, halves away from zero
RoundDiv(n, d) ==
    LET an == IF n < 0 THEN -n ELSE n
        ad == IF d < 0 THEN -d ELSE d
        q  == (2 * an + ad) \div (2 * ad)
    IN  IF (n < 0) = (d < 0) THEN q ELSE -q

-----------------------------------------------------------------------------
(* The source tables.  db.deal maps a deal id to its pipeline and stage,   *)
(* db.deal_company is the set of <<deal, company>> links, db.items is the  *)
(* sequence of line items already joined to their deal and product.        *)

\* [_hubspot].[company].property_region_dfe_
CompanyRegion(c) == IF c = 1 THEN "EMEA" ELSE IF c = 2 THEN "APAC" ELSE NULLSTR

\* [_hubspot].[deal_pipeline_stage]: stage_id -> label
StageLabel(s) ==
    IF s = "4581651" THEN "Closed won"
    ELSE IF s = "closedwon" THEN "Closed Won Approved"
    ELSE IF s = "closedlost" THEN "Closed lost"
    ELSE NULLSTR

AllowedLabels == {"Closed won", "Closed Won Approved", "Renewal due", "Cancelled Subscription"}

AllowedPipelines == {"default", "1305376", "1313057", "2453638", "6617404", "17494655", "1305377"}

DealIds(d) == DOMAIN d.deal

RECURSIVE SumSeq(_, _)
\* SUM(line_item.property_amount) over the indices I of the item sequence
SumSeq(items, I) ==
    IF I = {} THEN 0
    ELSE LET i == CHOOSE j \in I : TRUE
         IN  items[i].property_amount + SumSeq(items, I \ {i})

\* MIN(...) of a date column: NULLs are ignored, NULL when there is nothing else
MinDate(S) ==
    IF S \ {NaT} = {} THEN NaT
    ELSE CHOOSE d \in S \ {NaT} : \A e \in S \ {NaT} : d <= e

\* MAX(...) of a date column
MaxDate(S) ==
    IF S \ {NaT} = {} THEN NaT
    ELSE CHOOSE d \in S \ {NaT} : \A e \in S \ {NaT} : d >= e

\* the line items the inner joins keep: ON ... AND line_item._fivetran_deleted = 0
JoinedItems(items) == {i \in DOMAIN items : ~items[i]._fivetran_deleted}

\* the members of one GROUP BY deal_id, property_bundle, property_product_category
GroupItems(items, d, b, c) ==
    {i \in JoinedItems(items) :
        /\ items[i].deal_id = d
        /\ items[i].property_bundle = b
        /\ items[i].property_product_category = c}

\* the subquery `aggregated`
Aggregated(items) ==
    { LET G == GroupItems(items, k[1], k[2], k[3])
      IN  [deal_id |-> k[1],
           property_bundle |-> k[2],
           property_product_category |-> k[3],
           Total_Amount |-> Val(SumSeq(items, G)),
           MIN_Subscription_Start_Date |->
               MinDate({items[i].property_subscription_start_date : i \in G}),
           MAX_Subscription_End_Date |->
               MaxDate({items[i].property_subscription_end_date : i \in G})]
      : k \in {<<items[i].deal_id, items[i].property_bundle,
                 items[i].property_product_category>> : i \in JoinedItems(items)} }

\* the row a LEFT JOIN gives a deal that has no aggregated row
NullAggregate(d) ==
    [deal_id |-> d, property_bundle |-> NULLSTR, property_product_category |-> NULLSTR,
     Total_Amount |-> NULL, MIN_Subscription_Start_Date |-> NaT,
     MAX_Subscription_End_Date |-> NaT]

\* CASE WHEN MAX_Subscription_End_Date >= GETDATE() THEN 'LIVE' ELSE 'EXPIRED' END
\* t is GETDATE(): its day, and whether it is exactly midnight
Subscription_Status(end, t) ==
    IF end # NaT /\ (end > t.day \/ (end = t.day /\ t.midnight))
    THEN "LIVE" ELSE "EXPIRED"

\* ROUND((Total_Amount / NULLIF(DATEDIFF(DAY, start, end) + 1, 0)) * 365, 2), in pence
ACV(total, start, end) ==
    IF IsNull(total) \/ start = NaT \/ end = NaT THEN NULL
    ELSE IF end - start + 1 = 0 THEN NULL
    ELSE Val(RoundDiv(total[1] * 100 * 365, end - start + 1))

\* the WHERE clause of SubscriptionDataRaw
WherePasses(deal) ==
    /\ StageLabel(deal.deal_pipeline_stage_id) \in AllowedLabels
    /\ deal.deal_pipeline_id \in AllowedPipelines

\* the rows of SubscriptionDataRaw, before rn
SubscriptionDataRaw(d, t) ==
    UNION { LET aggs  == {a \in Aggregated(d.items) : a.deal_id = id}
                aggsJ == IF aggs = {} THEN {NullAggregate(id)} ELSE aggs
                comps == {l[2] : l \in {x \in d.deal_company : x[1] = id}}
                compsJ == IF comps = {} THEN {0} ELSE comps
            IN  IF ~WherePasses(d.deal[id]) THEN {}
                ELSE { [Deal_id |-> id,
                        deal_pipeline_id |-> d.deal[id].deal_pipeline_id,
                        Company_ID |-> c,
                        property_region_dfe_ |-> CompanyRegion(c),
                        deal_pipeline_stage_id |-> d.deal[id].deal_pipeline_stage_id,
                        property_bundle |-> a.property_bundle,
                        property_product_category |-> a.property_product_category,
                        MIN_Subscription_Start_Date |-> a.MIN_Subscription_Start_Date,
                        MAX_Subscription_End_Date |-> a.MAX_Subscription_End_Date,
                        Total_Amount |-> a.Total_Amount,
                        Subscription_Status |->
                            Subscription_Status(a.MAX_Subscription_End_Date, t),
                        ACV |-> ACV(a.Total_Amount, a.MIN_Subscription_Start_Date,
                                    a.MAX_Subscription_End_Date)]
                       : a \in aggsJ, c \in compsJ }
          : id \in DealIds(d) }

\* the last day a T-SQL date can hold
SqlMaxDate == Ymd(9999, 12, 31)

\* FORMAT(DATEADD(DAY, 1, MAX_Subscription_End_Date), 'yyyy-MM') AS Renewal_Period:
\* DATEADD overflows (error 517) on a row that ends on the last day T-SQL can hold,
\* and the whole query fails
RenewalPeriodRaises(raw) ==
    \E r \in raw : r.MAX_Subscription_End_Date = SqlMaxDate

\* PARTITION BY deal.Deal_id, company.id, aggregated.property_product_category
PartitionKey(r) == <<r.Deal_id, r.Company_ID, r.property_product_category>>

\* the rows that ROW_NUMBER() ... ORDER BY MAX_Subscription_End_Date DESC may number 1
RowNumberOne(raw, k) ==
    {r \in raw : /\ PartitionKey(r) = k
                 /\ \A q \in raw : PartitionKey(q) = k =>
                        q.MAX_Subscription_End_Date <= r.MAX_Subscription_End_Date}

\* SubscriptionData: every result WHERE rn = 1 can have (ties are broken arbitrarily)
SubscriptionData(raw) ==
    LET Keys == {PartitionKey(r) : r \in raw}
    IN  { {f[k] : k \in Keys} :
            f \in {g \in [Keys -> raw] : \A k \in Keys : g[k] \in RowNumberOne(raw, k)} }

\* RenewalExists with the window closed at the end date itself
RenewalExists_NoYear(sd, sd1) ==
    \E sd2 \in sd :
        /\ sd1.Company_ID # 0 /\ sd1.Company_ID = sd2.Company_ID
        /\ sd1.property_product_category # NULLSTR
        /\ sd1.property_product_category = sd2.property_product_category
        /\ sd2.Deal_id # sd1.Deal_id
        /\ sd1.MIN_Subscription_Start_Date # NaT /\ sd1.MAX_Subscription_End_Date # NaT
        /\ sd2.MIN_Subscription_Start_Date # NaT
        /\ sd2.MIN_Subscription_Start_Date >= sd1.MIN_Subscription_Start_Date
        /\ sd2.MIN_Subscription_Start_Date <= sd1.MAX_Subscription_End_Date

\* the EXISTS subquery of RenewalCheck (a comparison with NULL is never true)
RenewalExists(sd, sd1) ==
    \E sd2 \in sd :
        /\ sd1.Company_ID # 0 /\ sd1.Company_ID = sd2.Company_ID
        /\ sd1.property_product_category # NULLSTR
        /\ sd1.property_product_category = sd2.property_product_category
        /\ sd2.Deal_id # sd1.Deal_id
        /\ sd1.MIN_Subscription_Start_Date # NaT /\ sd1.MAX_Subscription_End_Date # NaT
        /\ sd2.MIN_Subscription_Start_Date # NaT
        /\ sd2.MIN_Subscription_Start_Date >= sd1.MIN_Subscription_Start_Date
        /\ sd2.MIN_Subscription_Start_Date <= DateAddYear(sd1.MAX_Subscription_End_Date)

\* the EXISTS subquery fails, and the whole query with it: DATEADD(YEAR, 1, ...) of
\* line 168 overflows.  It is evaluated for an EXPIRED row and a row of another deal
\* only when every test standing before it has passed: the same company and
\* category, and the lower bound of the BETWEEN (both starts known, the other row
\* starting no earlier)
RenewalCheckRaises(sd) ==
    \E sd1 \in sd, sd2 \in sd :
        /\ sd1.Subscription_Status # "LIVE"
        /\ sd1.Company_ID # 0 /\ sd1.Company_ID = sd2.Company_ID
        /\ sd1.property_product_category # NULLSTR
        /\ sd1.property_product_category = sd2.property_product_category
        /\ sd2.Deal_id # sd1.Deal_id
        /\ sd1.MIN_Subscription_Start_Date # NaT
        /\ sd2.MIN_Subscription_Start_Date # NaT
        /\ sd2.MIN_Subscription_Start_Date >= sd1.MIN_Subscription_Start_Date
        /\ DateAddYearRaises(sd1.MAX_Subscription_End_Date)

\* RenewalCheck.Renewal_Status
Renewal_Status(sd, sd1) ==
    IF sd1.Subscription_Status = "LIVE" THEN "Due for Renewal"
    ELSE IF RenewalExists(sd, sd1) THEN "Renewed"
    ELSE "Not Renewed"

\* FinalStatus.Final_Renewal_Status
Final_Renewal_Status(status, renewal) ==
    IF status = "LIVE" /\ renewal = "Not Renewed" THEN "Due for Renewal"
    ELSE IF status = "EXPIRED" /\ renewal = "Not Renewed" THEN "Non Renewal"
    ELSE renewal

AddField(r, name, v) ==
    [f \in (DOMAIN r) \cup {name} |-> IF f = name THEN v ELSE r[f]]

\* RenewalCheck and FinalStatus over one SubscriptionData
FinalStatus(sd) ==
    { LET rs == Renewal_Status(sd, r)
      IN  AddField(AddField(r, "Renewal_Status", rs),
                   "Final_Renewal_Status",
                   Final_Renewal_Status(r.Subscription_Status, rs))
      : r \in sd }

\* every row set sql_query can return for the tables d at time t; none when it fails
sql_query(d, t) ==
    LET raw == SubscriptionDataRaw(d, t)
    IN  IF RenewalPeriodRaises(raw) THEN {}
        ELSE {FinalStatus(sd) : sd \in {x \in SubscriptionData(raw) : ~RenewalCheckRaises(x)}}

\* the query fails: pd.read_sql raises
QueryRaises(d, t) == sql_query(d, t) = {}

-----------------------------------------------------------------------------
(* The script after the query: load, coercion, filters, the three bridges. *)

\* df is None after a failed load
None == [isNone |-> TRUE, rows |-> {}]

Frame(rows) == [isNone |-> FALSE, rows |-> rows]

\* the span of dates pd.to_datetime can hold (Timestamp.min, Timestamp.max)
PandasMinDate == Ymd(1677, 9, 22)

PandasMaxDate == Ymd(2262, 4, 11)

\* pd.to_datetime(x, errors='coerce').dt.date
ToDate(x) == IF x = NaT \/ x < PandasMinDate \/ x > PandasMaxDate THEN NaT ELSE x

\* lines 202-213 on one row
CoerceRow(r) ==
    LET s == ToDate(r.MIN_Subscription_Start_Date)
        e == ToDate(r.MAX_Subscription_End_Date)
        r1 == [r EXCEPT !.MIN_Subscription_Start_Date = s,
                        !.MAX_Subscription_End_Date = e]
    IN  AddField(AddField(r1, "Min_Month", IF s # NaT THEN MonthOf(s) ELSE 0),
                 "Min_Year", IF s # NaT THEN YearOf(s) ELSE 0)

RECURSIVE SumACV(_)
\* rows['ACV'].sum(): NaN is skipped
SumACV(rows) ==
    IF rows = {} THEN 0
    ELSE LET r == CHOOSE x \in rows : TRUE
         IN  (IF IsNull(r.ACV) THEN 0 ELSE r.ACV[1]) + SumACV(rows \ {r})

\* ["All"] + list(df[col].dropna().unique())
Options(rows, col) == {"All"} \cup ({r[col] : r \in rows} \ {NULLSTR})

\* lines 229-235
Filter(rows, region, category, bundle) ==
    {r \in rows :
        /\ category = "All" \/ r.property_product_category = category
        /\ bundle = "All" \/ r.property_bundle = bundle
        /\ region = "All" \/ r.property_region_dfe_ = region}

\* a comparison with NaT is False
Le(a, b) == a # NaT /\ b # NaT /\ a <= b

Lt(a, b) == a # NaT /\ b # NaT /\ a < b

\* x + pd.Timedelta(days=1)
PlusDay(x) == IF x = NaT THEN NaT ELSE x + 1

\* lines 238-241
OpeningRows(rows, start_date) ==
    {r \in rows : /\ Le(r.MIN_Subscription_Start_Date, start_date)
                  /\ Le(start_date, r.MAX_Subscription_End_Date)}

\* lines 243-246, 338-341, 408-411
ExpiringRows(rows, lo, hi) ==
    {r \in rows : /\ Le(lo, PlusDay(r.MAX_Subscription_End_Date))
                  /\ Le(PlusDay(r.MAX_Subscription_End_Date), hi)}

\* RenewedRows without the test of the stage
RenewedRows_NoStage(rows, year) ==
    {r \in rows : r.deal_pipeline_id = "1305377" /\ r.Min_Year = year}

\* lines 251-255
RenewedRows(rows, year) ==
    {r \in rows : /\ r.deal_pipeline_id = "1305377"
                  /\ r.deal_pipeline_stage_id = "4581651"
                  /\ r.Min_Year = year}

\* lines 344-349, 414-419
RenewedMonthRows(rows, year, month) ==
    {r \in rows : /\ r.deal_pipeline_id = "1305377"
                  /\ r.deal_pipeline_stage_id = "4581651"
                  /\ r.Min_Year = year
                  /\ r.Min_Month = month}

\* lines 258-260, 352-356, 422-426
NewBusinessRows(rows, lo, hi) ==
    {r \in rows : /\ Le(lo, r.MIN_Subscription_Start_Date)
                  /\ Le(r.MIN_Subscription_Start_Date, hi)
                  /\ r.deal_pipeline_id = "default"}

\* lines 264-267
ClosingRows(rows, closing_date) ==
    {r \in rows : /\ Le(r.MIN_Subscription_Start_Date, closing_date)
                  /\ Lt(closing_date, r.MAX_Subscription_End_Date)}

\* lines 316-319
RangeOpeningRows(rows, first_month_start) ==
    {r \in rows : /\ Le(r.MIN_Subscription_Start_Date, first_month_start)
                  /\ Lt(first_month_start, PlusDay(r.MAX_Subscription_End_Date))}

MonthStart(year, month) == Ymd(year, month, 1)

\* MonthEnd with a February of 28 days in every year
MonthEnd_NoLeap(year, month) ==
    Ymd(year, month, IF month = 2 THEN 28 ELSE DaysInMonth(year, month))

\* pd.to_datetime(month_start) + pd.offsets.MonthEnd(0)
MonthEnd(year, month) == Ymd(year, month, DaysInMonth(year, month))

\* one pass of a month loop: the three flows of the month
MonthFlows(rows, year, month) ==
    [expiring |-> SumACV(ExpiringRows(rows, MonthStart(year, month), MonthEnd(year, month))),
     renewed |-> SumACV(RenewedMonthRows(rows, year, month)),
     new_business |-> SumACV(NewBusinessRows(rows, MonthStart(year, month),
                                             MonthEnd(year, month)))]

RECURSIVE RangeLoop(_, _, _, _, _)
\* the loop of lines 333-367 from month m to month last, on the loop's variables
RangeLoop(rows, year, m, last, st) ==
    IF m > last THEN st
    ELSE LET f == MonthFlows(rows, year, m)
             rolling == st.rolling_acv - f.expiring + f.renewed + f.new_business
         IN  RangeLoop(rows, year, m + 1, last,
                 [expiring_acv |-> st.expiring_acv + f.expiring,
                  renewed_acv |-> st.renewed_acv + f.renewed,
                  new_business_acv |-> st.new_business_acv + f.new_business,
                  rolling_acv |-> rolling,
                  monthly_closing_acv |->
                      [k \in (DOMAIN st.monthly_closing_acv) \cup {m} |->
                          IF k = m THEN rolling ELSE st.monthly_closing_acv[k]]])

RECURSIVE FullYearLoop(_, _, _, _)
\* the loop of lines 403-439 from month m on, on <<values, rolling_acv>>
FullYearLoop(rows, year, m, st) ==
    IF m > 12 THEN st
    ELSE LET f == MonthFlows(rows, year, m)
         IN  FullYearLoop(rows, year, m + 1,
                 [values |-> st.values \o <<-f.expiring, f.renewed, f.new_business>>,
                  rolling_acv |-> st.rolling_acv - f.expiring + f.renewed + f.new_business])

\* lines 226-227, 238-267: the five quantities of the selected year
AnnualQuantities(rows, year) ==
    LET start_date == Ymd(year, 1, 1)
        end_date == Ymd(year, 12, 31)
        closing_date == Ymd(year, 12, 31)
    IN  [opening_acv |-> SumACV(OpeningRows(rows, start_date)),
         expiring_acv |-> SumACV(ExpiringRows(rows, start_date, end_date)),
         renewed_acv |-> SumACV(RenewedRows(rows, year)),
         new_business_acv |-> SumACV(NewBusinessRows(rows, start_date, end_date)),
         closing_acv |-> SumACV(ClosingRows(rows, closing_date))]

\* lines 314-370: the quantities of start_month..end_month (sm <= em)
RangeQuantities(rows, year, sm, em) ==
    LET first_month_start == Ymd(year, sm, 1)
        o == SumACV(RangeOpeningRows(rows, first_month_start))
        st == RangeLoop(rows, year, sm, em,
                 [expiring_acv |-> 0, renewed_acv |-> 0, new_business_acv |-> 0,
                  rolling_acv |-> o, monthly_closing_acv |-> <<>>])
    IN  [opening_acv |-> o,
         expiring_acv |-> st.expiring_acv,
         renewed_acv |-> st.renewed_acv,
         new_business_acv |-> st.new_business_acv,
         rolling_acv |-> st.rolling_acv,
         monthly_closing_acv |-> st.monthly_closing_acv,
         closing_acv |-> st.monthly_closing_acv[em]]

\* lines 396-443: `values` and rolling_acv of the 12-month breakdown, from the
\* value opening_acv holds when line 397 runs
FullYearQuantities(rows, year, opening) ==
    LET st == FullYearLoop(rows, year, 1,
                 [values |-> <<opening>>, rolling_acv |-> opening])
    IN  [values |-> Append(st.values, st.rolling_acv),
         rolling_acv |-> st.rolling_acv]

-----------------------------------------------------------------------------
(* The inputs the model draws from.                                        *)

\* selected_year is drawn from FirstYearChoice .. FirstYearChoice + NumYearChoices - 1
FirstYearChoice == 2024

NumYearChoices == 2

\* the deals of the renewal scenarios, and the line items of the aggregation scenarios
MaxDeals == 2

MaxItems == 2

\* range(2020, 2031)
YearRangeFirst == 2020

YearRangeLast == 2030

YearChoices ==
    {y \in FirstYearChoice..(FirstYearChoice + NumYearChoices - 1) :
        y >= YearRangeFirst /\ y <= YearRangeLast}

\* list(month_map.keys()) is 1..12; the model selects among these
StartMonthChoices == {1, 3}

EndMonthChoices == {2, 12}

Deal(p, st) == [deal_pipeline_id |-> p, deal_pipeline_stage_id |-> st]

Item(d, b, c, amt, s, e, del) ==
    [deal_id |-> d, property_bundle |-> b, property_product_category |-> c,
     property_amount |-> amt, property_subscription_start_date |-> s,
     property_subscription_end_date |-> e, _fivetran_deleted |-> del]

\* <<pipeline, stage>> of a deal: won new business, a booked renewal, another
\* allowed pipeline, the renewal pipeline at another stage, a lost deal, a pipeline
\* the query does not read
DealProfiles ==
    { Deal("default", "closedwon"), Deal("1305377", "4581651"),
      Deal("1313057", "4581651"), Deal("1305377", "closedwon"),
      Deal("default", "closedlost"), Deal("999", "closedwon") }

\* <<start, end>> of a line item, chosen on the boundaries of the selectable years
Spans ==
    { <<Ymd(2023, 1, 1), Ymd(2023, 12, 31)>>,    \* ends the day before a year starts
      <<Ymd(2023, 1, 1), Ymd(2024, 12, 31)>>,    \* ends on the last day of a year
      <<Ymd(2024, 1, 1), Ymd(2024, 12, 31)>>,    \* starts on the first day of a year
      <<Ymd(2024, 2, 29), Ymd(2025, 2, 28)>>,    \* starts on a leap day
      <<Ymd(2023, 3, 1), Ymd(2024, 2, 28)>>,     \* the day after its end is a leap day
      <<Ymd(2024, 6, 1), Ymd(2025, 5, 31)>>,     \* mid-year to mid-year
      <<Ymd(2025, 1, 31), Ymd(2026, 1, 30)>>,
      <<Ymd(2024, 6, 1), Ymd(2024, 5, 31)>>,     \* a span of zero days
      <<Ymd(2024, 3, 10), Ymd(2024, 3, 1)>>,     \* a span of -8 days
      <<NaT, Ymd(2024, 6, 30)>>,                 \* no start date
      <<Ymd(1600, 1, 1), Ymd(2024, 6, 30)>>,     \* a start pandas cannot hold
      <<Ymd(2024, 3, 1), Ymd(2300, 12, 31)>>,    \* an end pandas cannot hold
      <<Ymd(2024, 3, 1), Ymd(9999, 12, 31)>> }   \* an end T-SQL cannot add a day to

Midday(d) == [day |-> d, midnight |-> FALSE]

Midnight(d) == [day |-> d, midnight |-> TRUE]

Scenario(d, t) == [db |-> d, now |-> t]

\* one deal of one company with one line item
BridgeScenarios ==
    { Scenario([deal |-> [id \in {1} |-> p],
                deal_company |-> {<<1, 1>>},
                items |-> <<Item(1, "B1", "Software", 1200, sp[1], sp[2], FALSE)>>],
               Midday(Ymd(2025, 6, 15)))
      : p \in DealProfiles, sp \in Spans }

\* an older deal (1) and later deals (2..MaxDeals) that may renew it: deal id of
\* company co[id] (0: none) sells category cat from day st + id - 2 for 365 days
RenewalTables(p, co, cat, sp, st) ==
    [deal |-> [id \in 1..MaxDeals |->
                  IF id = 1 THEN Deal("default", "closedwon") ELSE p],
     deal_company |-> {<<id, co[id]>> : id \in {i \in 1..MaxDeals : co[i] # 0}},
     items |-> [id \in 1..MaxDeals |->
                  IF id = 1
                  THEN Item(1, "B1", "Software", 1200, sp[1], sp[2], FALSE)
                  ELSE Item(id, "B1", cat, 600 * id, st + id - 2, st + id + 362, FALSE)]]

\* the later deals start around the window [start, end + 1 year] of the older one,
\* and the query runs before or after the older one ends
RenewalDateScenarios ==
    { Scenario(RenewalTables(Deal("1305377", "4581651"), [id \in 1..MaxDeals |-> 1],
                             "Software", sp, st), t)
      : sp \in { <<Ymd(2023, 1, 1), Ymd(2023, 12, 31)>>,
                 <<Ymd(2023, 3, 1), Ymd(2024, 2, 29)>> },
        st \in { Ymd(2022, 12, 31), Ymd(2023, 1, 1), Ymd(2024, 12, 31),
                 Ymd(2025, 1, 1), Ymd(2025, 2, 28), Ymd(2025, 3, 1) },
        t \in { Midnight(Ymd(2023, 12, 31)), Midday(Ymd(2023, 12, 31)),
                Midday(Ymd(2026, 6, 15)) } }

\* the later deals are of the same company or another or none, in the same
\* category or another, in the renewal pipeline or not, and their line items are
\* deleted or not
RenewalKeyScenarios ==
    { Scenario(LET d == RenewalTables(p, [id \in 1..MaxDeals |->
                                             IF id = 1 THEN c[1] ELSE c[2]],
                                      cat, <<Ymd(2023, 1, 1), Ymd(2023, 12, 31)>>,
                                      Ymd(2024, 1, 1))
               IN  [d EXCEPT !.items =
                        [i \in DOMAIN d.items |->
                            IF i = 1 THEN d.items[i]
                            ELSE [d.items[i] EXCEPT !._fivetran_deleted = del]]],
               Midday(Ymd(2026, 6, 15)))
      : p \in {Deal("1305377", "4581651"), Deal("default", "closedwon")},
        c \in {<<1, 1>>, <<1, 2>>, <<0, 0>>},
        cat \in {"Software", "Services"},
        del \in BOOLEAN }

\* the older deal ends in the last year T-SQL can hold and the query runs after
\* that: the later deals are of its company or of another, and start inside its
\* window, before it, or on no known date; the older deal may have no start date
RenewalOverflowScenarios ==
    { Scenario(LET d == RenewalTables(Deal("1305377", "4581651"),
                                      [id \in 1..MaxDeals |-> IF id = 1 THEN 1 ELSE c],
                                      "Software", <<s1, Ymd(9999, 6, 30)>>, st)
               IN  [d EXCEPT !.items =
                        [i \in DOMAIN d.items |->
                            IF i = 1 \/ ~ns THEN d.items[i]
                            ELSE [d.items[i] EXCEPT
                                     !.property_subscription_start_date = NaT]]],
               Midday(Ymd(9999, 7, 1)))
      : c \in {1, 2},
        s1 \in {Ymd(2024, 1, 1), NaT},
        st \in {Ymd(2025, 1, 1), Ymd(2023, 6, 1)},
        ns \in BOOLEAN }

\* the line items a deal may hold at position i
ItemChoices(i) ==
    { Item(1, b, c, 300 * i, sp[1], sp[2], del)
      : b \in (IF i = 1 THEN {"B1"} ELSE {"B1", "B2"}),
        c \in (IF i = 1 THEN {"Software"} ELSE {"Software", "Services"}),
        del \in BOOLEAN,
        sp \in { <<Ymd(2024, 1, 1), Ymd(2024, 12, 31)>>,
                 <<Ymd(2024, 6, 1), Ymd(2025, 5, 31)>> } }

ItemLists ==
    UNION { {f \in [1..n -> UNION {ItemChoices(i) : i \in 1..n}] :
                \A i \in 1..n : f[i] \in ItemChoices(i)} : n \in 0..MaxItems }

\* one deal whose line items spread over bundles and categories
AggregationScenarios ==
    { Scenario([deal |-> [id \in {1} |-> Deal("default", "closedwon")],
                deal_company |-> {<<1, c>> : c \in cs},
                items |-> its],
               Midday(Ymd(2025, 6, 15)))
      : cs \in {{1}},
        its \in ItemLists }
    \cup
    { Scenario([deal |-> [id \in {1} |-> Deal("default", "closedwon")],
                deal_company |-> {<<1, c>> : c \in cs},
                items |-> << Item(1, "B1", "Software", 300, Ymd(2024, 1, 1),
                                  Ymd(2024, 12, 31), FALSE),
                             Item(1, "B2", "Software", 600, Ymd(2024, 6, 1),
                                  Ymd(2025, 5, 31), FALSE) >>],
               Midday(Ymd(2025, 6, 15)))
      : cs \in {{}, {1, 2}} }

-----------------------------------------------------------------------------

\* the script's own variables before its first line has run
Unset ==
    /\ pc = "start"
    /\ df = None
    /\ messages = <<>>
    /\ selected_region = "All" /\ selected_category = "All" /\ selected_bundle = "All"
    /\ selected_year = 0
    /\ filtered_df = {}
    /\ opening_acv = 0 /\ expiring_acv = 0 /\ renewed_acv = 0
    /\ new_business_acv = 0 /\ closing_acv = 0
    /\ start_month = 0 /\ end_month = 0
    /\ rolling_acv = 0 /\ monthly_closing_acv = <<>>
    /\ values = <<>>
    /\ charts = <<>>

Init ==
    /\ \E sc \in BridgeScenarios \cup RenewalDateScenarios \cup RenewalKeyScenarios
                \cup RenewalOverflowScenarios :
            db = sc.db /\ now = sc.now
    /\ Unset

InitAggregation ==
    /\ \E sc \in AggregationScenarios : db = sc.db /\ now = sc.now
    /\ Unset

\* establish_db_connection returns None: lines 40-43
LoadNoEngine ==
    /\ pc = "start"
    /\ messages' = Append(messages, "error: Failed to establish database connection.")
    /\ df' = None
    /\ pc' = "coerce"
    /\ UNCHANGED <<db, now, selected_region, selected_category, selected_bundle,
                   selected_year, filtered_df, opening_acv, expiring_acv, renewed_acv,
                   new_business_acv, closing_acv, start_month, end_month, rolling_acv,
                   monthly_closing_acv, values, charts>>

\* pd.read_sql raises, because the query fails or for a reason outside it: lines 53-56
LoadQueryError ==
    /\ pc = "start"
    /\ messages' = Append(messages, "error: Error loading data")
    /\ df' = None
    /\ pc' = "coerce"
    /\ UNCHANGED <<db, now, selected_region, selected_category, selected_bundle,
                   selected_year, filtered_df, opening_acv, expiring_acv, renewed_acv,
                   new_business_acv, closing_acv, start_month, end_month, rolling_acv,
                   monthly_closing_acv, values, charts>>

\* load_data_from_sql returns the query's rows: lines 45-52, 199
LoadData ==
    /\ pc = "start"
    /\ ~QueryRaises(db, now)
    /\ \E rows \in sql_query(db, now) :
        /\ df' = Frame(rows)
        /\ messages' = Append(messages, IF rows = {} THEN "warning: No data returned from the query."
                                       ELSE "success: Data loaded successfully.")
    /\ pc' = "coerce"
    /\ UNCHANGED <<db, now, selected_region, selected_category, selected_bundle,
                   selected_year, filtered_df, opening_acv, expiring_acv, renewed_acv,
                   new_business_acv, closing_acv, start_month, end_month, rolling_acv,
                   monthly_closing_acv, values, charts>>

\* df['MIN_Subscription_Start_Date'] on None raises TypeError: line 202
CoerceRaises ==
    /\ pc = "coerce"
    /\ df.isNone
    /\ pc' = "raised"
    /\ UNCHANGED <<db, now, df, messages, selected_region, selected_category,
                   selected_bundle, selected_year, filtered_df, opening_acv,
                   expiring_acv, renewed_acv, new_business_acv, closing_acv,
                   start_month, end_month, rolling_acv, monthly_closing_acv, values,
                   charts>>

\* lines 202-213
CoerceDates ==
    /\ pc = "coerce"
    /\ ~df.isNone
    /\ df' = Frame({CoerceRow(r) : r \in df.rows})
    /\ pc' = "filters"
    /\ UNCHANGED <<db, now, messages, selected_region, selected_category,
                   selected_bundle, selected_year, filtered_df, opening_acv,
                   expiring_acv, renewed_acv, new_business_acv, closing_acv,
                   start_month, end_month, rolling_acv, monthly_closing_acv, values,
                   charts>>

\* the sidebar selections and filtered_df: lines 218-235
SelectFilters ==
    /\ pc = "filters"
    /\ \E region \in Options(df.rows, "property_region_dfe_"),
          category \in Options(df.rows, "property_product_category"),
          bundle \in Options(df.rows, "property_bundle"),
          year \in YearChoices :
        /\ selected_region' = region
        /\ selected_category' = category
        /\ selected_bundle' = bundle
        /\ selected_year' = year
        /\ filtered_df' = Filter(df.rows, region, category, bundle)
    /\ pc' = "annual"
    /\ UNCHANGED <<db, now, df, messages, opening_acv, expiring_acv, renewed_acv,
                   new_business_acv, closing_acv, start_month, end_month, rolling_acv,
                   monthly_closing_acv, values, charts>>

\* the annual bridge and its chart: lines 226-227, 238-297
AnnualBridge ==
    /\ pc = "annual"
    /\ LET q == AnnualQuantities(filtered_df, selected_year)
       IN  /\ opening_acv' = q.opening_acv
           /\ expiring_acv' = q.expiring_acv
           /\ renewed_acv' = q.renewed_acv
           /\ new_business_acv' = q.new_business_acv
           /\ closing_acv' = q.closing_acv
           /\ charts' = Append(charts, <<q.opening_acv, -q.expiring_acv, q.renewed_acv,
                                         q.new_business_acv, q.closing_acv>>)
    /\ pc' = "range"
    /\ UNCHANGED <<db, now, df, messages, selected_region, selected_category,
                   selected_bundle, selected_year, filtered_df, start_month, end_month,
                   rolling_acv, monthly_closing_acv, values>>

\* start month after end month: lines 305-309
MonthError ==
    /\ pc = "range"
    /\ \E sm \in StartMonthChoices, em \in EndMonthChoices :
        /\ sm > em
        /\ start_month' = sm
        /\ end_month' = em
    /\ messages' = Append(messages, "sidebar error: Start month should be before end month.")
    /\ pc' = "full"
    /\ UNCHANGED <<db, now, df, selected_region, selected_category, selected_bundle,
                   selected_year, filtered_df, opening_acv, expiring_acv, renewed_acv,
                   new_business_acv, closing_acv, rolling_acv, monthly_closing_acv,
                   values, charts>>

\* the start-month..end-month bridge and its chart: lines 305-306, 310-391
RangeBridge ==
    /\ pc = "range"
    /\ \E sm \in StartMonthChoices, em \in EndMonthChoices :
        /\ sm <= em
        /\ start_month' = sm
        /\ end_month' = em
        /\ LET q == RangeQuantities(filtered_df, selected_year, sm, em)
           IN  /\ opening_acv' = q.opening_acv
               /\ expiring_acv' = q.expiring_acv
               /\ renewed_acv' = q.renewed_acv
               /\ new_business_acv' = q.new_business_acv
               /\ rolling_acv' = q.rolling_acv
               /\ monthly_closing_acv' = q.monthly_closing_acv
               /\ closing_acv' = q.closing_acv
               /\ values' = <<q.opening_acv, -q.expiring_acv, q.renewed_acv,
                              q.new_business_acv, q.closing_acv>>
               /\ charts' = Append(charts, values')
    /\ pc' = "full"
    /\ UNCHANGED <<db, now, df, messages, selected_region, selected_category,
                   selected_bundle, selected_year, filtered_df>>

\* the 12-month breakdown and its chart: lines 396-461
FullYearBreakdown ==
    /\ pc = "full"
    /\ LET q == FullYearQuantities(filtered_df, selected_year, opening_acv)
       IN  /\ rolling_acv' = q.rolling_acv
           /\ values' = q.values
           /\ charts' = Append(charts, q.values)
    /\ pc' = "done"
    /\ UNCHANGED <<db, now, df, messages, selected_region, selected_category,
                   selected_bundle, selected_year, filtered_df, opening_acv,
                   expiring_acv, renewed_acv, new_business_acv, closing_acv,
                   start_month, end_month, monthly_closing_acv>>

Next ==
    \/ LoadNoEngine
    \/ LoadQueryError
    \/ LoadData
    \/ CoerceRaises
    \/ CoerceDates
    \/ SelectFilters
    \/ AnnualBridge
    \/ MonthError
    \/ RangeBridge
    \/ FullYearBreakdown

Spec == Init /\ [][Next]_vars

SpecAggregation == InitAggregation /\ [][Next]_vars

-----------------------------------------------------------------------------
(* The charts a pass has drawn, and sums over their entries.               *)

RECURSIVE SumEntries(_, _, _)
\* s[i] + ... + s[j]
SumEntries(s, i, j) == IF i > j THEN 0 ELSE s[i] + SumEntries(s, i + 1, j)

RECURSIVE SumEvery3(_, _)
\* s[i] + s[i + 3] + ... over the indices of s
SumEvery3(s, i) == IF i > Len(s) THEN 0 ELSE s[i] + SumEvery3(s, i + 3)

LastEntry(s) == s[Len(s)]

AnnualDrawn == Len(charts) >= 1

RangeDrawn == pc \in {"full", "done"} /\ start_month <= end_month

FullYearDrawn == pc = "done"

AnnualChart == charts[1]

RangeChart == charts[2]

FullYearChart == charts[Len(charts)]

Loaded == pc = "coerce" /\ ~df.isNone

\* the rows of a frame both of whose dates pandas could parse
ParsedRows(rows) ==
    {r \in rows : r.MIN_Subscription_Start_Date # NaT /\ r.MAX_Subscription_End_Date # NaT}

\* the rows of a frame whose span of days is positive, or not known
PositiveSpanRows(rows) ==
    {r \in rows : \/ r.MIN_Subscription_Start_Date = NaT
                  \/ r.MAX_Subscription_End_Date = NaT
                  \/ r.MAX_Subscription_End_Date - r.MIN_Subscription_Start_Date + 1 > 0}

\* the rows in the renewal pipeline at the renewal stage
RenewalPipelineRows(rows) ==
    {r \in rows : r.deal_pipeline_id = "1305377" /\ r.deal_pipeline_stage_id = "4581651"}

\* the rows that start on a day of lo..hi
StartingRows(rows, lo, hi) ==
    {r \in rows : /\ r.MIN_Subscription_Start_Date # NaT
                  /\ lo <= r.MIN_Subscription_Start_Date
                  /\ r.MIN_Subscription_Start_Date <= hi}

\* year, month and day of a date as one number
Yyyymmdd(d) == YearOf(d) * 10000 + MonthOf(d) * 100 + DayOf(d)

\* C1: every bridge drawn closes on opening - expiring + renewed + new business
\* (a chart holds expiring negated, so its last entry is the sum of the others).
C1_EveryBridgeBalances ==
    \A i \in DOMAIN charts :
        LastEntry(charts[i]) = SumEntries(charts[i], 1, Len(charts[i]) - 1)

\* C2: with start month 1 and end month 12, the year's one-shot closing ACV is the
\* closing ACV rolled forward month by month from the 1 January opening.
C2_AnnualClosingIsRolledClosing ==
    (RangeDrawn /\ start_month = 1 /\ end_month = 12) =>
        AnnualChart[5] = RangeChart[5]

\* C3: the loaded frame holds one row per (deal, company, category), carrying the
\* sum, earliest start and latest end of all non-deleted line items of the deal in
\* the category, whatever their bundles.
C3_OneRowPerKeyWithCategoryTotals ==
    Loaded =>
        \A r \in df.rows :
            /\ \A q \in df.rows : PartitionKey(q) = PartitionKey(r) => q = r
            /\ LET G == {i \in DOMAIN db.items :
                            /\ ~db.items[i]._fivetran_deleted
                            /\ db.items[i].deal_id = r.Deal_id
                            /\ db.items[i].property_product_category
                                   = r.property_product_category}
               IN  G # {} =>
                     /\ r.Total_Amount = Val(SumSeq(db.items, G))
                     /\ r.MIN_Subscription_Start_Date =
                          MinDate({db.items[i].property_subscription_start_date : i \in G})
                     /\ r.MAX_Subscription_End_Date =
                          MaxDate({db.items[i].property_subscription_end_date : i \in G})

\* C4: the final status of a loaded row is one of Renewed, Due for Renewal and
\* Non Renewal; it is Due for Renewal exactly when the row is LIVE, and Renewed
\* exactly when the row is EXPIRED and a row of another deal of the same company
\* and category starts no earlier than this row and no later than one year after
\* this row ends.
C4_FinalStatusFromStatusAndSiblings ==
    Loaded =>
        \A r \in df.rows :
            LET sibling ==
                    \E q \in df.rows :
                        /\ q.Deal_id # r.Deal_id
                        /\ r.Company_ID # 0 /\ q.Company_ID = r.Company_ID
                        /\ r.property_product_category # NULLSTR
                        /\ q.property_product_category = r.property_product_category
                        /\ q.MIN_Subscription_Start_Date # NaT
                        /\ r.MIN_Subscription_Start_Date # NaT
                        /\ r.MAX_Subscription_End_Date # NaT
                        /\ r.MIN_Subscription_Start_Date <= q.MIN_Subscription_Start_Date
                        /\ Yyyymmdd(q.MIN_Subscription_Start_Date)
                               <= Yyyymmdd(r.MAX_Subscription_End_Date) + 10000
            IN  /\ r.Final_Renewal_Status \in {"Renewed", "Due for Renewal", "Non Renewal"}
                /\ (r.Final_Renewal_Status = "Due for Renewal")
                       <=> (r.Subscription_Status = "LIVE")
                /\ (r.Final_Renewal_Status = "Renewed")
                       <=> (r.Subscription_Status = "EXPIRED" /\ sibling)

\* a loaded frame with a renewed row next to a live one
C4_Witness ==
    /\ Loaded
    /\ \E r \in df.rows, q \in df.rows :
        /\ r.Final_Renewal_Status = "Renewed"
        /\ q.Final_Renewal_Status = "Due for Renewal"
        /\ q.Deal_id # r.Deal_id

\* C5 as claimed: the renewed ACV of the year is the renewed ACV of the rows
\* classified Renewed alone; no other row adds to it.
C5_RenewedOnlyFromRowsClassifiedRenewed ==
    AnnualDrawn =>
        AnnualChart[3] =
            SumACV(RenewedRows({r \in filtered_df : r.Final_Renewal_Status = "Renewed"},
                               selected_year))

\* C5 as amended: the renewed ACV of a period is the ACV of the rows in pipeline
\* 1305377 at stage 4581651 that start in the period, whatever their renewal
\* classification; a row outside that pipeline or stage adds nothing.
C5_RenewedFromRenewalPipelineRows ==
    /\ AnnualDrawn =>
         AnnualChart[3] =
             SumACV(StartingRows(RenewalPipelineRows(filtered_df),
                                 Ymd(selected_year, 1, 1), Ymd(selected_year, 12, 31)))
    /\ RangeDrawn =>
         RangeChart[3] =
             SumACV(StartingRows(RenewalPipelineRows(filtered_df),
                                 Ymd(selected_year, start_month, 1),
                                 Ymd(selected_year, end_month,
                                     DaysInMonth(selected_year, end_month))))
    /\ FullYearDrawn =>
         \A m \in 1..12 :
             FullYearChart[3 * m] =
                 SumACV(StartingRows(RenewalPipelineRows(filtered_df),
                                     Ymd(selected_year, m, 1),
                                     Ymd(selected_year, m, DaysInMonth(selected_year, m))))

\* a finished pass whose renewed ACV comes from a row that is not classified Renewed
C5_Witness ==
    /\ FullYearDrawn /\ RangeDrawn
    /\ AnnualChart[3] > 0 /\ RangeChart[3] > 0
    /\ \E r \in RenewalPipelineRows(filtered_df) :
          r.Min_Year = selected_year /\ r.Final_Renewal_Status # "Renewed"

\* C6: a failed load is reported and no later step raises.
C6_FailedLoadDoesNotRaise ==
    (pc # "start" /\ df.isNone) => (Len(messages) >= 1 /\ pc # "raised")

\* C7: rows with a start or end date that could not be parsed add nothing to any
\* quantity of any bridge: each chart is the chart of the frame without them.
C7_UnparsedRowsAddNothing ==
    /\ AnnualDrawn =>
         LET q == AnnualQuantities(ParsedRows(filtered_df), selected_year)
         IN  AnnualChart = <<q.opening_acv, -q.expiring_acv, q.renewed_acv,
                             q.new_business_acv, q.closing_acv>>
    /\ RangeDrawn =>
         LET q == RangeQuantities(ParsedRows(filtered_df), selected_year,
                                  start_month, end_month)
         IN  RangeChart = <<q.opening_acv, -q.expiring_acv, q.renewed_acv,
                            q.new_business_acv, q.closing_acv>>

\* C8: no row has a negative ACV, and rows whose span of days is zero or negative
\* add nothing to the annual bridge.
C8_NoNegativeACVAndEmptySpansAddNothing ==
    AnnualDrawn =>
        /\ \A r \in df.rows : IsNull(r.ACV) \/ r.ACV[1] >= 0
        /\ LET q == AnnualQuantities(PositiveSpanRows(filtered_df), selected_year)
           IN  AnnualChart = <<q.opening_acv, -q.expiring_acv, q.renewed_acv,
                               q.new_business_acv, q.closing_acv>>

\* C9: the 12-month breakdown opens on the ACV open on 1 January of the selected
\* year, whatever start and end month were selected.
C9_BreakdownOpensOnFirstOfJanuary ==
    FullYearDrawn =>
        FullYearChart[1] =
            SumACV({r \in filtered_df :
                        /\ r.MIN_Subscription_Start_Date # NaT
                        /\ r.MAX_Subscription_End_Date # NaT
                        /\ r.MIN_Subscription_Start_Date <= Ymd(selected_year, 1, 1)
                        /\ Ymd(selected_year, 1, 1) <= r.MAX_Subscription_End_Date})

\* C10: each flow of the year's one-shot bridge is the sum of the twelve monthly
\* flows of the breakdown, and of the month loop run from month 1 to month 12.
C10_AnnualFlowsAreSumsOfMonthlyFlows ==
    /\ FullYearDrawn =>
         /\ AnnualChart[2] = SumEvery3(SubSeq(FullYearChart, 1, 37), 2)
         /\ AnnualChart[3] = SumEvery3(SubSeq(FullYearChart, 1, 37), 3)
         /\ AnnualChart[4] = SumEvery3(SubSeq(FullYearChart, 1, 37), 4)
    /\ (RangeDrawn /\ start_month = 1 /\ end_month = 12) =>
         /\ AnnualChart[2] = RangeChart[2]
         /\ AnnualChart[3] = RangeChart[3]
         /\ AnnualChart[4] = RangeChart[4]

\* a finished pass over a leap year, months 1 to 12, with ACV expiring and ACV
\* renewed in different months
C10_Witness ==
    /\ FullYearDrawn /\ RangeDrawn /\ start_month = 1 /\ end_month = 12
    /\ IsLeap(selected_year)
    /\ \E m \in 1..12, k \in 1..12 :
          m # k /\ FullYearChart[3 * m - 1] < 0 /\ FullYearChart[3 * k] > 0

====
